---- MODULE Spec2Model ----
(***************************************************************************)
(* AgroNova Enterprise (src/app.py): a Streamlit script that is re-run     *)
(* top to bottom on every user interaction.  One run fetches the weather,  *)
(* and, when the "Generate Enterprise Farm Plan" button was pressed,       *)
(* builds a prompt, calls the model at temperatures 0.3 and 0.7, parses    *)
(* the 0.3 output as JSON, renders it, classifies its safety, appends a    *)
(* row to agronova_logs.csv and offers a PDF report.                       *)
(*                                                                         *)
(* Python strings are TLA+ strings; Python values whose type matters       *)
(* (None / str / number / missing key) are tagged records, see PyNone.     *)
(***************************************************************************)
EXTENDS Integers, Sequences, FiniteSets, TLC

VARIABLES
    pc,           \* position of the script run
    has_secret,   \* "GOOGLE_API_KEY" in st.secrets
    country, state, stage, goals, weather_key, question,   \* widget values
    clicked,      \* st.button(...) returned True in this run
    weather_data, \* result of fetch_weather(state, weather_key)
    http,         \* the HTTP exchange of a fetch_weather call (FetchWeatherCall)
    base_prompt,
    low_output, high_output,
    parsed,       \* json.loads(low_output)
    safety,
    screen,       \* elements the run has put on the page, in order
    log,          \* rows of agronova_logs.csv
    log_before,   \* the rows the file held when the run started
    e,            \* the exception caught by the except branch
    invocations,  \* client.models.generate_content calls of this run
    surfaced,     \* every (cause, notice) pair the except branch has shown
    runs          \* script runs so far (also the clock of datetime.now())

vars == <<pc, has_secret, country, state, stage, goals, weather_key, question,
          clicked, weather_data, http, base_prompt, low_output, high_output,
          parsed, safety, screen, log, log_before, e, invocations, surfaced,
          runs>>

(***************************************************************************)
(* Bounds of the model.                                                    *)
(***************************************************************************)
MaxRuns == 2
MaxFrags == 2

(***************************************************************************)
(* Python values.                                                          *)
(***************************************************************************)
PyNone == [t |-> "none", n |-> 0, s |-> ""]
PyStr(x) == [t |-> "str", n |-> 0, s |-> x]
PyNum(x) == [t |-> "num", n |-> x, s |-> ""]
Missing == [t |-> "missing", n |-> 0, s |-> ""]

\* str(v) / f"{v}"
PyToStr(v) ==
    CASE v.t = "none" -> "None"
      [] v.t = "str"  -> v.s
      [] v.t = "num"  -> ToString(v.n)
      [] OTHER        -> ""

(***************************************************************************)
(* String helpers: `w in s`, s.lower(), s.replace(a, b), sep.join(xs).     *)
(***************************************************************************)
StartsAt(s, w, i) == i + Len(w) - 1 <= Len(s) /\ SubSeq(s, i, i + Len(w) - 1) = w

Contains(s, w) == \E i \in 1..(Len(s) + 1) : StartsAt(s, w, i)

UpperAlpha == "ABCDEFGHIJKLMNOPQRSTUVWXYZ"
LowerAlpha == "abcdefghijklmnopqrstuvwxyz"

LowerChar(c) ==
    IF \E i \in 1..Len(UpperAlpha) : SubSeq(UpperAlpha, i, i) = c
    THEN LET i == CHOOSE j \in 1..Len(UpperAlpha) : SubSeq(UpperAlpha, j, j) = c
         IN SubSeq(LowerAlpha, i, i)
    ELSE c

\* s.lower(), by halves
RECURSIVE Lower(_)
Lower(s) ==
    IF Len(s) = 0 THEN ""
    ELSE IF Len(s) = 1 THEN LowerChar(s)
         ELSE LET h == Len(s) \div 2
              IN Lower(SubSeq(s, 1, h)) \o Lower(SubSeq(s, h + 1, Len(s)))

\* s.replace(old, new): the occurrences of old, leftmost first, not overlapping
RECURSIVE Replace(_, _, _)
Replace(s, old, new) ==
    IF ~Contains(s, old) \/ Len(old) = 0 THEN s
    ELSE LET i == CHOOSE k \in 1..Len(s) :
                      /\ StartsAt(s, old, k)
                      /\ \A j \in 1..(k - 1) : ~StartsAt(s, old, j)
         IN SubSeq(s, 1, i - 1) \o new
                \o Replace(SubSeq(s, i + Len(old), Len(s)), old, new)

RECURSIVE Join(_, _)
Join(sep, xs) ==
    IF Len(xs) = 0 THEN ""
    ELSE IF Len(xs) = 1 THEN xs[1]
         ELSE xs[1] \o sep \o Join(sep, Tail(xs))

(***************************************************************************)
(* SAFETY CLASSIFIER                                                       *)
(***************************************************************************)
risk_keywords == <<"high dosage", "toxic", "hazard", "danger">>

\* the loop `for word in risk_keywords`, from position i on
RECURSIVE RiskLoop(_, _)
RiskLoop(text, i) ==
    IF i > Len(risk_keywords) THEN FALSE
    ELSE IF Contains(Lower(text), risk_keywords[i]) THEN TRUE
         ELSE RiskLoop(text, i + 1)

\* classify_safety with the "chemical" test ahead of the keyword loop
classify_safety_yellow_first(text) ==
    IF Contains(Lower(text), "chemical") THEN "YELLOW"
    ELSE IF RiskLoop(text, 1) THEN "RED"
         ELSE "GREEN"

classify_safety(text) ==
    IF RiskLoop(text, 1) THEN "RED"
    ELSE IF Contains(Lower(text), "chemical") THEN "YELLOW"
         ELSE "GREEN"

(***************************************************************************)
(* WEATHER MODULE                                                          *)
(*                                                                         *)
(* An outcome of requests.get(url).json() is one of                        *)
(*   [kind |-> "error", ...]    requests.get raised (connection, timeout)  *)
(*   [kind |-> "nonjson", ...]  .json() raised                             *)
(*   [kind |-> "list", ...]     the body is JSON but not an object         *)
(*   [kind |-> "object", ...]   a JSON object; main and rain are           *)
(*                              "absent", "other" (present, not an object) *)
(*                              or "dict" with the listed members          *)
(***************************************************************************)
NoMain == [t |-> "absent", temp |-> Missing, humidity |-> Missing]
NoRain == [t |-> "absent", h1 |-> Missing]

MainValues ==
    {NoMain, [NoMain EXCEPT !.t = "other"]}
    \cup {[t |-> "dict", temp |-> a, humidity |-> b] :
            a \in {Missing, PyNum(31)}, b \in {Missing, PyNum(40)}}

RainValues ==
    {NoRain, [NoRain EXCEPT !.t = "other"]}
    \cup {[t |-> "dict", h1 |-> a] : a \in {Missing, PyNum(0), PyNum(2)}}

HttpOutcomes ==
    {[kind |-> k, main |-> NoMain, rain |-> NoRain] :
        k \in {"error", "timeout", "nonjson", "list"}}
    \cup {[kind |-> "object", main |-> m, rain |-> r] :
            m \in MainValues, r \in RainValues}

NoWeather ==
    [t |-> "none", temperature |-> Missing, humidity |-> Missing,
     rainfall_last_hour |-> Missing]

WeatherUrl(location, api_key) ==
    "http://api.openweathermap.org/data/2.5/weather?q=" \o location
        \o "&appid=" \o api_key \o "&units=metric"

\* data.get("rain", {}).get("1h", 0); Missing when .get is not an attribute
RainLastHour(data) ==
    CASE data.rain.t = "absent" -> PyNum(0)
      [] data.rain.t = "other"  -> Missing
      [] OTHER -> IF data.rain.h1 = Missing THEN PyNum(0) ELSE data.rain.h1

\* the try block of fetch_weather: the exception it raises ("" for none)
\* and the value it returns
WeatherTry(data) ==
    CASE data.kind = "error"   -> [raised |-> "ConnectionError", value |-> NoWeather]
      [] data.kind = "timeout" -> [raised |-> "Timeout", value |-> NoWeather]
      [] data.kind = "nonjson" -> [raised |-> "JSONDecodeError", value |-> NoWeather]
      [] data.kind = "list"    -> [raised |-> "TypeError", value |-> NoWeather]
      [] OTHER ->
           IF data.main.t = "absent" \/ (data.main.t = "dict" /\ data.main.temp = Missing)
           THEN [raised |-> "KeyError", value |-> NoWeather]
           ELSE IF data.main.t = "other"
           THEN [raised |-> "TypeError", value |-> NoWeather]
           ELSE IF data.main.humidity = Missing
           THEN [raised |-> "KeyError", value |-> NoWeather]
           ELSE IF RainLastHour(data) = Missing
           THEN [raised |-> "AttributeError", value |-> NoWeather]
           ELSE [raised |-> "",
                 value |-> [t |-> "dict",
                            temperature |-> data.main.temp,
                            humidity |-> data.main.humidity,
                            rainfall_last_hour |-> RainLastHour(data)]]

\* fetch_weather with a guard that tests the key only
fetch_weather_key_only(location, api_key, data) ==
    IF api_key = ""
    THEN [result |-> NoWeather, gets |-> 0, escaped |-> ""]
    ELSE [result |-> WeatherTry(data).value, gets |-> 1, escaped |-> ""]

\* fetch_weather with `except KeyError:` in place of the bare `except:`
fetch_weather_except_keyerror(location, api_key, data) ==
    IF api_key = "" \/ location = ""
    THEN [result |-> NoWeather, gets |-> 0, escaped |-> ""]
    ELSE [result |-> WeatherTry(data).value,
          gets |-> 1,
          escaped |-> IF WeatherTry(data).raised = "KeyError" THEN ""
                      ELSE WeatherTry(data).raised]

\* result: the return value; gets: HTTP requests issued; escaped: the
\* exception that left the function ("" for none: the bare except catches
\* every exception of the try block and returns None)
fetch_weather(location, api_key, data) ==
    IF api_key = "" \/ location = ""
    THEN [result |-> NoWeather, gets |-> 0, escaped |-> ""]
    ELSE IF WeatherTry(data).raised # ""
         THEN [result |-> NoWeather, gets |-> 1, escaped |-> ""]
         ELSE [result |-> WeatherTry(data).value, gets |-> 1, escaped |-> ""]

\* str(weather_data) of a snapshot
WeatherStr(w) ==
    "{'temperature': " \o PyToStr(w.temperature)
        \o ", 'humidity': " \o PyToStr(w.humidity)
        \o ", 'rainfall_last_hour': " \o PyToStr(w.rainfall_last_hour) \o "}"

\* the st.info line of the weather injection
WeatherInfo(w) ==
    "Temp: " \o PyToStr(w.temperature) \o "C | Humidity: " \o PyToStr(w.humidity)
        \o "% | Rain: " \o PyToStr(w.rainfall_last_hour) \o "mm"

(***************************************************************************)
(* PROMPT                                                                  *)
(***************************************************************************)
PromptHead ==
    "\nYou are AgroNova Enterprise AI.\n\nReturn output STRICTLY in JSON format:\n\n"
    \o "{\n  \"recommendations\":[\n"
    \o "    {\"action\":\"\", \"why\":\"\", \"risk\":\"LOW/MEDIUM/HIGH\"}\n"
    \o "  ],\n  \"confidence_score\": number_between_0_and_100\n}\n\nContext:\n"

PromptTail ==
    "\n\nUse simple language.\nAvoid unsafe chemical advice.\nProvide exactly 3 recommendations.\n"

GoalsText(g) == IF Len(g) # 0 THEN Join(", ", g) ELSE "General"

WeatherText(w) == IF w.t # "none" THEN WeatherStr(w) ELSE "Not available"

\* the prompt with only the first selected goal rendered
BasePrompt_first_goal_only(c, s, st, g, w, q) ==
    PromptHead
    \o "Country: " \o c \o "\n"
    \o "State: " \o s \o "\n"
    \o "Stage: " \o st \o "\n"
    \o "Goals: " \o (IF Len(g) # 0 THEN g[1] ELSE "General") \o "\n"
    \o "Weather: " \o WeatherText(w) \o "\n"
    \o "\nUser Question:\n" \o q
    \o PromptTail

BasePrompt(c, s, st, g, w, q) ==
    PromptHead
    \o "Country: " \o c \o "\n"
    \o "State: " \o s \o "\n"
    \o "Stage: " \o st \o "\n"
    \o "Goals: " \o GoalsText(g) \o "\n"
    \o "Weather: " \o WeatherText(w) \o "\n"
    \o "\nUser Question:\n" \o q
    \o PromptTail

(***************************************************************************)
(* AI ORCHESTRATOR                                                         *)
(*                                                                         *)
(* An outcome of client.models.generate_content is                         *)
(*   [kind |-> "error"]   the call raised (transport error, non-success    *)
(*                        status)                                          *)
(*   [kind |-> "notext"]  a response without a text attribute, or with     *)
(*                        text None                                        *)
(*   [kind |-> "text"]    a response with the given text (possibly "")     *)
(***************************************************************************)
NoExc == [type |-> "", msg |-> ""]
ApiError == [type |-> "ServerError", msg |-> "503 UNAVAILABLE"]

TextPlain ==
    "{\"recommendations\":[{\"action\":\"Mulch beds\",\"why\":\"Saves water\",\"risk\":\"LOW\"}],\"confidence_score\":82}"
TextToxic ==
    "{\"recommendations\":[{\"action\":\"Avoid Toxic chemical spray\",\"why\":\"Burns\",\"risk\":\"HIGH\"}],\"confidence_score\":150}"
TextChemical ==
    "{\"recommendations\":[{\"action\":\"Use Chemical fertilizer\",\"why\":\"Growth\",\"risk\":\"MEDIUM\"}],\n\"confidence_score\":-5}"
TextWordScore == "{\"recommendations\":[],\"confidence_score\":\"high\"}"
TextNoScore == "{\"recommendations\":[]}"
TextNoRecs == "{\"confidence_score\":70}"
TextNoWhy ==
    "{\"recommendations\":[{\"action\":\"Weed\",\"why\":\"Light\",\"risk\":\"LOW\"},{\"action\":\"Irrigate\"}],\"confidence_score\":60}"
TextMarkup ==
    "{\"recommendations\":[{\"action\":\"Prune <b>now\",\"why\":\"Airflow\",\"risk\":\"LOW\"}],\"confidence_score\":70}"
TextProse == "Apply toxic spray in high dosage."
TextCreative == "Try companion planting."

JsonTexts ==
    {TextPlain, TextToxic, TextChemical, TextWordScore, TextNoScore, TextNoRecs,
     TextNoWhy, TextMarkup}

ModelTexts == JsonTexts \cup {TextProse}

LowOutcomes ==
    {[kind |-> k, text |-> ""] : k \in {"error", "notext", "text"}}
    \cup {[kind |-> "text", text |-> t] : t \in ModelTexts}

HighOutcomes ==
    {[kind |-> k, text |-> ""] : k \in {"error", "notext"}}
    \cup {[kind |-> "text", text |-> TextCreative]}

run_ai_orchestrator(context_prompt, temperature, outcome) ==
    IF outcome.kind = "error"
    THEN [raised |-> ApiError, value |-> PyNone]
    ELSE IF outcome.kind = "text" /\ outcome.text # ""
         THEN [raised |-> NoExc, value |-> PyStr(outcome.text)]
         ELSE [raised |-> NoExc, value |-> PyNone]

(***************************************************************************)
(* json.loads on the texts the model returns.  A parsed object keeps what  *)
(* the handler reads: "recommendations" and "confidence_score", each       *)
(* Missing when the key is absent.                                         *)
(***************************************************************************)
Rec(a, w, r) == [action |-> a, why |-> w, risk |-> r]
RecList(items) == [t |-> "list", items |-> items]
NoRecs == [t |-> "missing", items |-> <<>>]
NoParse == [ok |-> FALSE, recs |-> NoRecs, conf |-> Missing]
Obj(recs, conf) == [ok |-> TRUE, recs |-> recs, conf |-> conf]

json_loads(text) ==
    CASE text = TextPlain ->
           Obj(RecList(<<Rec(PyStr("Mulch beds"), PyStr("Saves water"), PyStr("LOW"))>>),
               PyNum(82))
      [] text = TextToxic ->
           Obj(RecList(<<Rec(PyStr("Avoid Toxic chemical spray"), PyStr("Burns"),
                             PyStr("HIGH"))>>),
               PyNum(150))
      [] text = TextChemical ->
           Obj(RecList(<<Rec(PyStr("Use Chemical fertilizer"), PyStr("Growth"),
                             PyStr("MEDIUM"))>>),
               PyNum(-5))
      [] text = TextWordScore -> Obj(RecList(<<>>), PyStr("high"))
      [] text = TextNoScore -> Obj(RecList(<<>>), Missing)
      [] text = TextNoRecs -> Obj(NoRecs, PyNum(70))
      [] text = TextNoWhy ->
           Obj(RecList(<<Rec(PyStr("Weed"), PyStr("Light"), PyStr("LOW")),
                         Rec(PyStr("Irrigate"), Missing, Missing)>>),
               PyNum(60))
      [] text = TextMarkup ->
           Obj(RecList(<<Rec(PyStr("Prune <b>now"), PyStr("Airflow"), PyStr("LOW"))>>),
               PyNum(70))
      [] OTHER -> NoParse

JSONDecodeError ==
    [type |-> "JSONDecodeError", msg |-> "Expecting value: line 1 column 1 (char 0)"]
NoneTypeError ==
    [type |-> "TypeError",
     msg |-> "the JSON object must be str, bytes or bytearray, not NoneType"]
\* str(KeyError(k)) is repr(k)
Repr(k) == "'" \o k \o "'"
KeyError(k) == [type |-> "KeyError", msg |-> Repr(k)]
PermissionError ==
    [type |-> "PermissionError",
     msg |-> "[Errno 13] Permission denied: 'agronova_logs.csv'"]
MarkupError ==
    [type |-> "ValueError", msg |-> "Parse error: saw </para> instead of expected </b>"]

(***************************************************************************)
(* Page elements.                                                          *)
(***************************************************************************)
El(kind, body) == [kind |-> kind, body |-> body]

Shown(kind) == \E i \in 1..Len(screen) : screen[i].kind = kind

\* the f-string of one recommendation; the first missing key raises
RecMissingKey(rec) ==
    IF rec.action = Missing THEN "action"
    ELSE IF rec.why = Missing THEN "why"
         ELSE IF rec.risk = Missing THEN "risk" ELSE ""

RecMarkup(rec) ==
    "Action: " \o PyToStr(rec.action) \o " | Why: " \o PyToStr(rec.why)
        \o " | Risk Level: " \o PyToStr(rec.risk)

\* the loop `for rec in parsed["recommendations"]`: the elements it shows
\* and the key whose absence stopped it ("" when it ran to the end)
RECURSIVE RenderRecs(_)
RenderRecs(items) ==
    IF Len(items) = 0 THEN [els |-> <<>>, key |-> ""]
    ELSE IF RecMissingKey(items[1]) # ""
         THEN [els |-> <<>>, key |-> RecMissingKey(items[1])]
         ELSE LET rest == RenderRecs(Tail(items))
              IN [els |-> <<El("recommendation", RecMarkup(items[1]))>> \o rest.els,
                  key |-> rest.key]

SafetyMarkup(tier) ==
    CASE tier = "GREEN"  -> "Safety Score: SAFE"
      [] tier = "YELLOW" -> "Safety Score: MODERATE"
      [] OTHER           -> "Safety Score: HIGH RISK"

ConfidenceMarkup(conf) == "### AI Confidence Score: " \o PyToStr(conf) \o "%"

\* reportlab's Paragraph rejects markup with an opened and never closed tag
ParagraphRaises(markup) == Contains(markup, "<b>") /\ ~Contains(markup, "</b>")

ReportMarkup(text) == Replace(text, "\n", "<br/>")

\* the guard written with `and`
RequiredMissing_both(s, q) == s = "" /\ q = ""

\* `if not state or not question`
RequiredMissing(s, q) == s = "" \/ q = ""

(***************************************************************************)
(* Widget values the user can enter.                                       *)
(***************************************************************************)
CountryOptions == {"India", "Ghana"}
StageOptions == {"Planning", "Sowing"}
GoalOptions == {"High Yield", "Organic", "Water Saving"}
CountryInputs == {"Ghana"}
StageInputs == {"Sowing"}
StateInputs == {"", "Punjab"}
KeyInputs == {"", "k1"}
QuestionInputs == {"", "Leaves turning yellow"}
GoalInputs == {<<>>, <<"Water Saving", "Organic">>}

NoData == [kind |-> "none", main |-> NoMain, rain |-> NoRain]
NoHttp == [gets |-> 0, url |-> "", data |-> NoData, escaped |-> ""]

FailureNotice == "AI service unavailable."

widgets == <<country, state, stage, goals, weather_key, question, clicked>>
files == <<log, log_before, surfaced, runs>>

(***************************************************************************)
(* The state before the first interaction: nothing entered, nothing run.   *)
(***************************************************************************)
Init ==
    /\ pc = "idle"
    /\ has_secret \in BOOLEAN
    /\ country = "India" /\ state = "" /\ stage = "Planning" /\ goals = <<>>
    /\ weather_key = "" /\ question = "" /\ clicked = FALSE
    /\ weather_data = NoWeather /\ http = NoHttp /\ base_prompt = ""
    /\ low_output = Missing /\ high_output = Missing
    /\ parsed = NoParse /\ safety = "" /\ screen = <<>>
    /\ log = <<>> /\ log_before = <<>>
    /\ e = NoExc /\ invocations = <<>> /\ surfaced = {} /\ runs = 0

(***************************************************************************)
(* The except branch: st.error(...) and st.code(str(e)), after the         *)
(* elements `shown` of the try block.  `cause` says which call raised.     *)
(***************************************************************************)
Except(shown, exc, cause) ==
    /\ e' = exc
    /\ screen' = shown \o <<El("error", FailureNotice), El("code", exc.msg)>>
    /\ surfaced' = surfaced \cup {[cause |-> cause, notice |-> FailureNotice]}
    /\ pc' = "idle"

(***************************************************************************)
(* A user interaction re-runs the script: page config, the secrets check   *)
(* (st.stop() without the key) and the sidebar widgets.                    *)
(***************************************************************************)
Interact ==
    /\ pc = "idle"
    /\ runs < MaxRuns
    /\ runs' = runs + 1
    /\ log_before' = log
    /\ weather_data' = NoWeather /\ base_prompt' = ""
    /\ low_output' = Missing /\ high_output' = Missing
    /\ parsed' = NoParse /\ safety' = "" /\ e' = NoExc /\ invocations' = <<>>
    /\ IF has_secret
       THEN /\ country' \in CountryInputs
            /\ state' \in StateInputs
            /\ stage' \in StageInputs
            /\ goals' \in GoalInputs
            /\ weather_key' \in KeyInputs
            /\ question' \in QuestionInputs
            /\ clicked' \in BOOLEAN
            /\ screen' = <<>>
            /\ pc' = "weather"
       ELSE /\ screen' = <<El("error", "Add GOOGLE_API_KEY in Streamlit Secrets.")>>
            /\ pc' = "idle"
            /\ UNCHANGED widgets
    /\ UNCHANGED <<has_secret, http, log, surfaced>>

\* weather_data = fetch_weather(state, weather_key); st.info when truthy
WeatherInjection ==
    /\ pc = "weather"
    /\ \E data \in HttpOutcomes :
         LET r == fetch_weather(state, weather_key, data)
         IN /\ weather_data' = r.result
            /\ screen' = IF r.result.t # "none"
                         THEN screen \o <<El("info", WeatherInfo(r.result))>>
                         ELSE screen
    /\ pc' = "button"
    /\ UNCHANGED <<has_secret, widgets, http, base_prompt, low_output, high_output,
                   parsed, safety, e, invocations, files>>

\* if st.button(...): the required-field guard and the prompt
ButtonHandler ==
    /\ pc = "button"
    /\ IF ~clicked
       THEN pc' = "idle" /\ UNCHANGED <<screen, base_prompt>>
       ELSE IF RequiredMissing(state, question)
       THEN /\ screen' = screen \o <<El("warning", "Please complete required fields.")>>
            /\ pc' = "idle"
            /\ UNCHANGED base_prompt
       ELSE /\ base_prompt' = BasePrompt(country, state, stage, goals, weather_data,
                                         question)
            /\ pc' = "low_call"
            /\ UNCHANGED screen
    /\ UNCHANGED <<has_secret, widgets, weather_data, http, low_output, high_output,
                   parsed, safety, e, invocations, files>>

\* low_output = run_ai_orchestrator(base_prompt, 0.3)
LowCall ==
    /\ pc = "low_call"
    /\ invocations' = Append(invocations, "0.3")
    /\ \E outcome \in LowOutcomes :
         LET r == run_ai_orchestrator(base_prompt, "0.3", outcome)
         IN IF r.raised # NoExc
            THEN Except(screen, r.raised, "model") /\ UNCHANGED low_output
            ELSE /\ low_output' = r.value
                 /\ pc' = "high_call"
                 /\ UNCHANGED <<screen, e, surfaced>>
    /\ UNCHANGED <<has_secret, widgets, weather_data, http, base_prompt, high_output,
                   parsed, safety, log, log_before, runs>>

\* high_output = run_ai_orchestrator(base_prompt, 0.7)
HighCall ==
    /\ pc = "high_call"
    /\ invocations' = Append(invocations, "0.7")
    /\ \E outcome \in HighOutcomes :
         LET r == run_ai_orchestrator(base_prompt, "0.7", outcome)
         IN IF r.raised # NoExc
            THEN Except(screen, r.raised, "model") /\ UNCHANGED high_output
            ELSE /\ high_output' = r.value
                 /\ pc' = "json_loads"
                 /\ UNCHANGED <<screen, e, surfaced>>
    /\ UNCHANGED <<has_secret, widgets, weather_data, http, base_prompt, low_output,
                   parsed, safety, log, log_before, runs>>

\* parsed = json.loads(low_output); st.success(...)
JsonLoads ==
    /\ pc = "json_loads"
    /\ IF low_output = PyNone
       THEN Except(screen, NoneTypeError, "none") /\ UNCHANGED parsed
       ELSE IF ~json_loads(low_output.s).ok
       THEN Except(screen, JSONDecodeError, "parse") /\ UNCHANGED parsed
       ELSE /\ parsed' = json_loads(low_output.s)
            /\ screen' = screen \o <<El("success", "Enterprise Farm Plan Ready")>>
            /\ pc' = "recommendations"
            /\ UNCHANGED <<e, surfaced>>
    /\ UNCHANGED <<has_secret, widgets, weather_data, http, base_prompt, low_output,
                   high_output, safety, invocations, log, log_before, runs>>

\* for rec in parsed["recommendations"]: st.markdown(...)
Recommendations ==
    /\ pc = "recommendations"
    /\ IF parsed.recs.t = "missing"
       THEN Except(screen, KeyError("recommendations"), "render")
       ELSE LET r == RenderRecs(parsed.recs.items)
            IN IF r.key # ""
               THEN Except(screen \o r.els, KeyError(r.key), "render")
               ELSE /\ screen' = screen \o r.els
                    /\ pc' = "safety"
                    /\ UNCHANGED <<e, surfaced>>
    /\ UNCHANGED <<has_secret, widgets, weather_data, http, base_prompt, low_output,
                   high_output, parsed, safety, invocations, log, log_before, runs>>

\* safety = classify_safety(low_output) and its badge
Safety ==
    /\ pc = "safety"
    /\ safety' = classify_safety(low_output.s)
    /\ screen' = screen \o <<El("safety", SafetyMarkup(safety'))>>
    /\ pc' = "confidence"
    /\ UNCHANGED <<has_secret, widgets, weather_data, http, base_prompt, low_output,
                   high_output, parsed, e, invocations, files>>

\* the confidence line and the model comparison expander
Confidence ==
    /\ pc = "confidence"
    /\ IF parsed.conf = Missing
       THEN Except(screen, KeyError("confidence_score"), "render")
       ELSE /\ screen' = screen \o <<El("confidence", ConfidenceMarkup(parsed.conf)),
                                     El("low", PyToStr(low_output)),
                                     El("high", PyToStr(high_output))>>
            /\ pc' = "logging"
            /\ UNCHANGED <<e, surfaced>>
    /\ UNCHANGED <<has_secret, widgets, weather_data, http, base_prompt, low_output,
                   high_output, parsed, safety, invocations, log, log_before, runs>>

\* log_entry and DataFrame.to_csv(..., mode="a"); the file may be unwritable
Logging ==
    /\ pc = "logging"
    /\ \E writable \in BOOLEAN :
         IF writable
         THEN /\ log' = Append(log, [timestamp |-> runs, country |-> country,
                                     state |-> state, confidence |-> parsed.conf,
                                     safety |-> safety])
              /\ pc' = "pdf"
              /\ UNCHANGED <<screen, e, surfaced>>
         ELSE Except(screen, PermissionError, "log") /\ UNCHANGED log
    /\ UNCHANGED <<has_secret, widgets, weather_data, http, base_prompt, low_output,
                   high_output, parsed, safety, invocations, log_before, runs>>

\* the PDF is built from low_output and offered for download
PdfExport ==
    /\ pc = "pdf"
    /\ IF ParagraphRaises(ReportMarkup(low_output.s))
       THEN Except(screen, MarkupError, "pdf")
       ELSE /\ screen' = screen \o <<El("download", ReportMarkup(low_output.s))>>
            /\ pc' = "idle"
            /\ UNCHANGED <<e, surfaced>>
    /\ UNCHANGED <<has_secret, widgets, weather_data, http, base_prompt, low_output,
                   high_output, parsed, safety, invocations, log, log_before, runs>>

Next ==
    \/ Interact
    \/ WeatherInjection
    \/ ButtonHandler
    \/ LowCall
    \/ HighCall
    \/ JsonLoads
    \/ Recommendations
    \/ Safety
    \/ Confidence
    \/ Logging
    \/ PdfExport

Spec == Init /\ [][Next]_vars

(***************************************************************************)
(* classify_safety on its own: the input texts are the concatenations of   *)
(* at most MaxFrags fragments, so that keywords appear whole, split,       *)
(* embedded in longer words, in either case and together.                  *)
(***************************************************************************)
Frags == {"high", " Dosage", "TOXIC", "hazard", "ous", "Danger", "CHEMical", "spray "}

RECURSIVE Texts(_)
Texts(n) ==
    IF n = 0 THEN {""}
    ELSE Texts(n - 1) \cup {t \o f : t \in Texts(n - 1), f \in Frags}

InitSafety ==
    /\ pc = "classify_safety"
    /\ low_output \in {PyStr(t) : t \in Texts(MaxFrags)}
    /\ has_secret = TRUE
    /\ country = "India" /\ state = "" /\ stage = "Planning" /\ goals = <<>>
    /\ weather_key = "" /\ question = "" /\ clicked = FALSE
    /\ weather_data = NoWeather /\ http = NoHttp /\ base_prompt = ""
    /\ high_output = Missing
    /\ parsed = NoParse /\ safety = "" /\ screen = <<>>
    /\ log = <<>> /\ log_before = <<>>
    /\ e = NoExc /\ invocations = <<>> /\ surfaced = {} /\ runs = 0

ClassifyCall ==
    /\ pc = "classify_safety"
    /\ safety' = classify_safety(low_output.s)
    /\ pc' = "classified"
    /\ UNCHANGED <<has_secret, widgets, weather_data, http, base_prompt, low_output,
                   high_output, parsed, screen, e, invocations, files>>

NextSafety == ClassifyCall

SpecSafety == InitSafety /\ [][NextSafety]_vars

(***************************************************************************)
(* fetch_weather on its own: every location, key and HTTP outcome; http    *)
(* records the exchange the call made.                                     *)
(***************************************************************************)
LocationInputs == {"", "Punjab", "Accra"}
ApiKeyInputs == {"", "k1", "k2"}

InitWeather ==
    /\ pc = "fetch_weather"
    /\ state \in LocationInputs
    /\ weather_key \in ApiKeyInputs
    /\ has_secret = TRUE
    /\ country = "India" /\ stage = "Planning" /\ goals = <<>>
    /\ question = "" /\ clicked = FALSE
    /\ weather_data = NoWeather /\ http = NoHttp /\ base_prompt = ""
    /\ low_output = Missing /\ high_output = Missing
    /\ parsed = NoParse /\ safety = "" /\ screen = <<>>
    /\ log = <<>> /\ log_before = <<>>
    /\ e = NoExc /\ invocations = <<>> /\ surfaced = {} /\ runs = 0

FetchWeatherCall ==
    /\ pc = "fetch_weather"
    /\ \E data \in HttpOutcomes :
         LET r == fetch_weather(state, weather_key, data)
         IN /\ weather_data' = r.result
            /\ http' = [gets |-> r.gets,
                        url |-> IF r.gets = 0 THEN ""
                                ELSE WeatherUrl(state, weather_key),
                        data |-> IF r.gets = 0 THEN NoData ELSE data,
                        escaped |-> r.escaped]
    /\ pc' = "returned"
    /\ UNCHANGED <<has_secret, widgets, base_prompt, low_output, high_output,
                   parsed, safety, screen, e, invocations, files>>

NextWeather == FetchWeatherCall

SpecWeather == InitWeather /\ [][NextWeather]_vars

(***************************************************************************)
(* The prompt on its own: every context a submission can carry (state and  *)
(* question non-empty, goals in any selection order, weather absent or a   *)
(* snapshot fetch_weather can return).                                     *)
(***************************************************************************)
MaxGoals == 2

GoalLists ==
    {g \in UNION {[1..n -> GoalOptions] : n \in 0..MaxGoals} :
        \A i, j \in DOMAIN g : i # j => g[i] # g[j]}

WeatherResults == {fetch_weather("Punjab", "k1", data).result : data \in HttpOutcomes}

InitPrompt ==
    /\ pc = "build_prompt"
    /\ country \in CountryOptions
    /\ state \in {"Punjab", "General"}
    /\ stage \in StageOptions
    /\ goals \in GoalLists
    /\ question \in {"Leaves turning yellow", "Is rain expected?\nNot sure."}
    /\ weather_data \in WeatherResults
    /\ has_secret = TRUE
    /\ weather_key = "" /\ clicked = TRUE
    /\ http = NoHttp /\ base_prompt = ""
    /\ low_output = Missing /\ high_output = Missing
    /\ parsed = NoParse /\ safety = "" /\ screen = <<>>
    /\ log = <<>> /\ log_before = <<>>
    /\ e = NoExc /\ invocations = <<>> /\ surfaced = {} /\ runs = 0

BuildPromptCall ==
    /\ pc = "build_prompt"
    /\ base_prompt' = BasePrompt(country, state, stage, goals, weather_data, question)
    /\ pc' = "built"
    /\ UNCHANGED <<has_secret, widgets, weather_data, http, low_output, high_output,
                   parsed, safety, screen, e, invocations, files>>

NextPrompt == BuildPromptCall

SpecPrompt == InitPrompt /\ [][NextPrompt]_vars

(***************************************************************************)
(* Properties.                                                             *)
(***************************************************************************)
\* w occurs in text when case is ignored: some window of text lower-cases to w
OccursIgnoringCase(text, w) ==
    \E i \in 1..Len(text) :
        /\ i + Len(w) - 1 <= Len(text)
        /\ Lower(SubSeq(text, i, i + Len(w) - 1)) = w

RedWords == {"high dosage", "toxic", "hazard", "danger"}

\* the script run is over (the page is complete)
RunOver == pc = "idle" /\ runs > 0

\* the except branch showed its notice
Failed == \E i \in 1..Len(screen) : screen[i] = El("error", FailureNotice)

\* C1: classify_safety returns RED when a RED keyword occurs in the text
\* ignoring case, otherwise YELLOW when "chemical" occurs, otherwise GREEN;
\* a text with a RED keyword and "chemical" is RED.
C1_SafetyTiers ==
    pc = "classified" =>
        safety = IF \E w \in RedWords : OccursIgnoringCase(low_output.s, w)
                 THEN "RED"
                 ELSE IF OccursIgnoringCase(low_output.s, "chemical")
                      THEN "YELLOW"
                      ELSE "GREEN"

C1_Witness ==
    /\ pc = "classified"
    /\ OccursIgnoringCase(low_output.s, "toxic")
    /\ OccursIgnoringCase(low_output.s, "chemical")
    /\ safety = "RED"

\* C2: when both model calls have returned and the 0.3 call returned text,
\* the finished page shows a safety tier (the claim: also when json.loads of
\* that text fails).
C2_SafetyDespiteParseFailure ==
    (RunOver /\ low_output.t = "str" /\ high_output # Missing) => Shown("safety")

\* C3: a run that ended in the except branch has appended no row to
\* agronova_logs.csv and offers no PDF download.
C3_FailureLeavesNoLogNoReport ==
    (RunOver /\ Failed) => (log = log_before /\ ~Shown("download"))

\* C4: when the 0.3 or the 0.7 call yields no text (it raised, or its
\* response carried none), the run ends with the failure notice, and with
\* no log row and no report.
C4_NoTextIsFailure ==
    (RunOver /\ (low_output = PyNone \/ high_output = PyNone \/ e = ApiError)) =>
        (Failed /\ log = log_before /\ ~Shown("download"))

\* C5: the notice shown for a json.loads failure on returned text differs
\* from the notice shown when the model call raises.
C5_ParseFailureDistinct ==
    \A a, b \in surfaced :
        (a.cause = "parse" /\ b.cause = "model") => a.notice # b.notice

\* C6: a confidence that is displayed or logged is a number in [0,100].
C6_ConfidenceInRange ==
    /\ Shown("confidence") =>
         (parsed.conf.t = "num" /\ parsed.conf.n >= 0 /\ parsed.conf.n <= 100)
    /\ \A i \in 1..Len(log) :
         /\ log[i].confidence.t = "num"
         /\ log[i].confidence.n >= 0
         /\ log[i].confidence.n <= 100

\* C7: with an empty location or an empty key fetch_weather returns None
\* and issues no HTTP request.
C7_NoRequestWithoutInputs ==
    (pc = "returned" /\ (state = "" \/ weather_key = "")) =>
        (weather_data = NoWeather /\ http.gets = 0 /\ http.url = "")

C7_Witness ==
    /\ pc = "returned"
    /\ state = "" /\ weather_key # ""
    /\ weather_data = NoWeather /\ http.gets = 0

\* both required fields are in the body
TempAndHumidity(d) ==
    /\ d.kind = "object" /\ d.main.t = "dict"
    /\ d.main.temp # Missing /\ d.main.humidity # Missing

\* C8: fetch_weather never raises; after a request that failed (network
\* error, timeout, non-JSON body, main.temp or main.humidity missing) it
\* returns None; a snapshot is returned only when main.temp and
\* main.humidity are present, with rain.1h read as 0 when absent; at most
\* one request is issued per call.
C8_AbsentOnFailure ==
    pc = "returned" =>
        /\ http.escaped = ""
        /\ http.gets <= 1
        /\ (http.gets = 1 /\ ~TempAndHumidity(http.data)) => weather_data = NoWeather
        /\ weather_data.t = "dict" =>
             /\ http.gets = 1
             /\ TempAndHumidity(http.data)
             /\ weather_data.temperature = http.data.main.temp
             /\ weather_data.humidity = http.data.main.humidity
             /\ weather_data.rainfall_last_hour =
                  IF http.data.rain.t = "dict" /\ http.data.rain.h1 # Missing
                  THEN http.data.rain.h1
                  ELSE PyNum(0)

C8_Witness ==
    /\ pc = "returned"
    /\ weather_data.t = "dict"
    /\ http.data.rain.t = "absent"
    /\ weather_data.rainfall_last_hour = PyNum(0)

\* the goals joined by ", " in selection order, built from the last one
RECURSIVE InSelectionOrder(_)
InSelectionOrder(g) ==
    IF Len(g) = 1 THEN g[1]
    ELSE InSelectionOrder(SubSeq(g, 1, Len(g) - 1)) \o ", " \o g[Len(g)]

\* C9: the prompt embeds country, state, stage and the verbatim question;
\* the goals comma-joined in selection order, or 'General' exactly when no
\* goal is selected; the weather snapshot, or 'Not available' exactly when
\* the weather is absent; and the instruction to give exactly 3
\* recommendations.
C9_PromptEmbedsContext ==
    pc = "built" =>
        /\ Contains(base_prompt, "\nCountry: " \o country \o "\n")
        /\ Contains(base_prompt, "\nState: " \o state \o "\n")
        /\ Contains(base_prompt, "\nStage: " \o stage \o "\n")
        /\ Contains(base_prompt, "\nUser Question:\n" \o question \o "\n")
        /\ Contains(base_prompt, "\nGoals: General\n") <=> (goals = <<>>)
        /\ goals # <<>> =>
             Contains(base_prompt, "\nGoals: " \o InSelectionOrder(goals) \o "\n")
        /\ Contains(base_prompt, "\nWeather: Not available\n")
             <=> (weather_data = NoWeather)
        /\ weather_data # NoWeather =>
             Contains(base_prompt,
                      "\nWeather: {'temperature': " \o ToString(weather_data.temperature.n)
                      \o ", 'humidity': " \o ToString(weather_data.humidity.n)
                      \o ", 'rainfall_last_hour': "
                      \o ToString(weather_data.rainfall_last_hour.n) \o "}\n")
        /\ Contains(base_prompt, "\nProvide exactly 3 recommendations.\n")

C9_Witness ==
    /\ pc = "built"
    /\ Len(goals) = 2
    /\ weather_data.t = "dict"
    /\ Contains(base_prompt, "\nGoals: " \o goals[1] \o ", " \o goals[2] \o "\n")

\* every element on the page is the weather line or the warning
OnlyWarning ==
    /\ Shown("warning")
    /\ \A i \in 1..Len(screen) : screen[i].kind \in {"info", "warning"}

\* C10: a submission with an empty state or an empty question invokes no
\* model, appends no log row, offers no report and shows only the
\* required-fields warning; every model invocation belongs to a submission
\* with state and question both non-empty.
C10_RequiredFieldsGuard ==
    /\ (state = "" \/ question = "") =>
         /\ invocations = <<>>
         /\ log = log_before
         /\ ~Shown("download")
         /\ (RunOver /\ has_secret /\ clicked) => OnlyWarning
    /\ invocations # <<>> => (clicked /\ state # "" /\ question # "")

C10_Witness ==
    /\ RunOver /\ clicked
    /\ state # "" /\ question = ""
    /\ OnlyWarning
    /\ invocations = <<>>

====
